---- MODULE Spec2Model ----
(***************************************************************************)
(* Model of defibrillator: the retry loop of main, one supervised attempt  *)
(* (run_server), the log fan-out task (handle_stdout) and the readiness    *)
(* rule futures (rules/futures.rs).                                        *)
(*                                                                         *)
(* One step of the supervisor in the Starting state is one poll of the     *)
(* select_biased! of run_server: the rules future is polled first (every   *)
(* live probe handles the events that are available to it), then the      *)
(* child's exit, then the timeout.  The child, the timers, the network and *)
(* the spawned stdout task run concurrently and are separate actions.      *)
(*                                                                         *)
(* The supervisor's specifications take each read of the child's stdout to *)
(* hold one whole line; handle_stdout is modelled byte by byte, for every  *)
(* split of the output into reads, in SpecStdout, and the duration literal *)
(* parser (duration.rs) in SpecDuration.                                   *)
(***************************************************************************)
EXTENDS Integers, Sequences, FiniteSets, TLC

\* ------------------------------------------------------------------ bounds
\* Largest --retries value explored.
MaxRetries == 2
\* Cap on the number of times the command is launched in one behaviour.
MaxLaunches == 3
\* Cap on the number of lines the child prints in one attempt.
MaxLines == 2
\* Lines retained by the broadcast channel for a slow receiver
\* (broadcast::channel(100) in the source, scaled down so that lag occurs).
ChanCap == 1
\* Cap on the connection attempts / requests of one Tcp, Http or Https probe.
MaxTries == 2
\* Largest number of bytes one read of the child's stdout returns.
MaxChunk == 2
\* Cap on the number of reads before the end of the child's stdout.
MaxReads == 2
\* Longest digit run of the duration literals explored.
MaxDigits == 2
\* Largest value of the count type of a duration literal (u32 in the source,
\* scaled down so that a digit run can overflow it).
MaxCount == 20

\* --------------------------------------------------------------- constants
\* Log lines (each stands for one newline-terminated line of child stdout).
Lines == {"foo", "ready"}

\* A compiled regex is modelled by the set of lines it matches.
IsMatch(pattern, line) == line \in pattern

\* Option<u64> of Args::retries.
NoRetries == [some |-> FALSE, v |-> 0]
SomeRetries(n) == [some |-> TRUE, v |-> n]

\* Rule descriptors (rules/descriptors.rs).
After == [kind |-> "after", pat |-> {}]
Tcp == [kind |-> "tcp", pat |-> {}]
Http == [kind |-> "http", pat |-> {}]
Https == [kind |-> "https", pat |-> {}]
Matches(pattern) == [kind |-> "matches", pat |-> pattern]

\* The rule expressions explored: an OrRules is a sequence of AndRules, an
\* AndRules a sequence of Rules.
RuleSets ==
    { << <<Matches({"ready"})>> >>,
      << <<After, Matches({"ready"})>> >>,
      << <<Tcp>>, <<Matches({"ready"})>> >>,
      << <<Http, Https>>, <<After>> >> }

\* The outputs explored for the command: the lines it prints, in order.
Scripts == UNION {[1..n -> Lines] : n \in 0..MaxLines}

VARIABLES
    retries,          \* args.retries
    starting_timeout, \* args.ready_timeout is Some
    rules,            \* args.rules
    script,           \* args.command: the lines the command prints when run
    attempts,         \* main: let mut attempts
    pc,               \* position of main / run_server
    outcomes,         \* history: the outcomes returned by run_server so far
    launches,         \* history: number of builder.spawn() calls so far
    child,            \* "none" | "running" | "exited" | "killed"
    killed,           \* child.kill() was called in this attempt
    log,              \* lines sent on this attempt's broadcast channel
    closed,           \* the channel's Sender has been dropped
    reader,           \* read_task: "none" | "running" | "done" (returned
                      \* Ok) | "failed" (returned Err) | "panicked"
    mirror,           \* stdout_task of handle_stdout: [st, cur]
    elapsed,          \* the sleep_until deadline of this attempt has passed
    probes,           \* the rule futures of this attempt
    taken,            \* history: the select_biased! arms taken in this attempt,
                      \* each with the futures that were ready at that poll
    lagSeen,          \* history: some Matches probe received RecvError::Lagged
    written,          \* history: what stdout_task has written in this attempt
    mlagged,          \* history: stdout_task received RecvError::Lagged
    events,           \* history: the tracing events emitted so far
    aborted,          \* history: number of JoinHandle::abort() calls so far
    pipe,             \* read_task: the results of the reads still to come
    buffer,           \* read_task: let mut buffer
    count,            \* read_task: let mut count
    input,            \* the string handed to Duration::from_str
    parsed            \* what Duration::from_str returned for it

vars == <<retries, starting_timeout, rules, script, attempts, pc, outcomes, launches,
          child, killed, log, closed, reader, mirror, elapsed, probes, taken,
          lagSeen, written, mlagged, events, aborted, pipe, buffer, count,
          input, parsed>>

\* The variables of read_task's buffer and of the duration parser: the
\* supervisor's steps never touch them.
detail == <<pipe, buffer, count, input, parsed>>

config == <<retries, starting_timeout, rules, script>>

\* ------------------------------------------------------------ rule futures

\* Rule::build: a fresh future per rule; a Matches future subscribes to the
\* channel when it is built, so its cursor starts at the channel's tail.
\* tries counts the connection attempts or requests started; lagged and got
\* are history: a Lagged was received, and the lines received so far; fails
\* and slept are history: the attempts that returned Err, and the
\* sleep_until(now + 1s) that have completed.
RuleBuild(rule, tail) ==
    [kind |-> rule.kind, pat |-> rule.pat, st |-> "init", cur |-> tail,
     tries |-> 0, lagged |-> FALSE, got |-> <<>>, fails |-> 0, slept |-> 0]

AndRulesBuild(group, tail) ==
    [i \in 1..Len(group) |-> RuleBuild(group[i], tail)]

OrRulesBuild(or, tail) ==
    [g \in 1..Len(or) |-> AndRulesBuild(or[g], tail)]

\* In the operators below, e is the event the future finds when it is polled:
\* "tick" (its timer has fired), "ok", "err" (its connection attempt or
\* request has resolved), "late" (it has failed, and more than a second after
\* it was started), or "none".

\* After::wait: sleep(duration), then return.
AfterWait(p, e) ==
    CASE p.st = "init" -> [p EXCEPT !.st = "sleep"]
      [] p.st = "sleep" /\ e = "tick" -> [p EXCEPT !.st = "done"]
      [] OTHER -> p

\* Mutant of ConnectLoop: a failed attempt is followed by the next one at
\* once, without the sleep_until.
ConnectLoopNoSleep(p, e) ==
    CASE p.st = "init" -> [p EXCEPT !.st = "connect", !.tries = @ + 1]
      [] p.st = "connect" /\ e = "ok" -> [p EXCEPT !.st = "done"]
      [] p.st = "connect" /\ e \in {"err", "late"} ->
            [p EXCEPT !.tries = @ + 1, !.fails = @ + 1]
      [] OTHER -> p

\* The retry loop of Tcp::wait and of http_family_ready: start an attempt;
\* Ok(..) => return; Err(..) => sleep_until(now + 1s), then the next attempt.
\* After a "late" failure the sleep_until deadline has already passed and the
\* next attempt starts in the same poll.
ConnectLoop(p, e) ==
    CASE p.st = "init" -> [p EXCEPT !.st = "connect", !.tries = @ + 1]
      [] p.st = "connect" /\ e = "ok" -> [p EXCEPT !.st = "done"]
      [] p.st = "connect" /\ e = "err" ->
            [p EXCEPT !.st = "backoff", !.fails = @ + 1]
      [] p.st = "connect" /\ e = "late" ->
            [p EXCEPT !.tries = @ + 1, !.fails = @ + 1, !.slept = @ + 1]
      [] p.st = "backoff" /\ e = "tick" ->
            [p EXCEPT !.st = "connect", !.tries = @ + 1, !.slept = @ + 1]
      [] OTHER -> p

TcpWait(p, e) == ConnectLoop(p, e)

\* Http::wait and Https::wait both call http_family_ready("http", ..).
HttpFamilyReady(p, e) == ConnectLoop(p, e)

\* What Receiver::recv returns for a receiver whose cursor is cur.
Recv(cur, lines, isClosed) ==
    IF Len(lines) - cur > ChanCap
    THEN [tag |-> "Lagged", cur |-> Len(lines) - ChanCap, line |-> "none"]
    ELSE IF cur < Len(lines)
    THEN [tag |-> "Ok", cur |-> cur + 1, line |-> lines[cur + 1]]
    ELSE IF isClosed
    THEN [tag |-> "Closed", cur |-> cur, line |-> "none"]
    ELSE [tag |-> "Pending", cur |-> cur, line |-> "none"]

\* Mutant of MatchesWait: the first line received completes the future,
\* whether the pattern matches it or not.
MatchesWaitAnyLine(p, lines, isClosed) ==
    IF p.st \notin {"init", "recv"} THEN p
    ELSE LET r == Recv(p.cur, lines, isClosed)
         IN  IF r.tag = "Ok"
             THEN [p EXCEPT !.st = "done", !.cur = r.cur,
                            !.got = Append(@, r.line)]
             ELSE [p EXCEPT !.st = "recv"]

\* Mutant of MatchesWait: a closed channel completes the future.
RECURSIVE MatchesWaitClosedReady(_, _, _)
MatchesWaitClosedReady(p, lines, isClosed) ==
    IF p.st \notin {"init", "recv"} THEN p
    ELSE LET r == Recv(p.cur, lines, isClosed)
             q == [p EXCEPT !.st = "recv", !.cur = r.cur]
         IN  CASE r.tag = "Ok" ->
                     LET q1 == [q EXCEPT !.got = Append(@, r.line)]
                     IN  IF IsMatch(p.pat, r.line)
                         THEN [q1 EXCEPT !.st = "done"]
                         ELSE MatchesWaitClosedReady(q1, lines, isClosed)
               [] r.tag = "Closed" -> [q EXCEPT !.st = "done"]
               [] r.tag = "Lagged" ->
                     MatchesWaitClosedReady([q EXCEPT !.lagged = TRUE], lines,
                                            isClosed)
               [] OTHER -> q

\* Mutant of MatchesWait: the probe subscribes when it is first polled, not
\* when it is built, and misses the lines broadcast before that.
RECURSIVE MatchesWaitLateSubscribe(_, _, _)
MatchesWaitLateSubscribe(p, lines, isClosed) ==
    IF p.st \notin {"init", "recv"} THEN p
    ELSE LET p0 == IF p.st = "init" THEN [p EXCEPT !.cur = Len(lines)] ELSE p
             r == Recv(p0.cur, lines, isClosed)
             q == [p0 EXCEPT !.st = "recv", !.cur = r.cur]
         IN  CASE r.tag = "Ok" ->
                     LET q1 == [q EXCEPT !.got = Append(@, r.line)]
                     IN  IF IsMatch(p.pat, r.line)
                         THEN [q1 EXCEPT !.st = "done"]
                         ELSE MatchesWaitLateSubscribe(q1, lines, isClosed)
               [] r.tag = "Closed" -> [q EXCEPT !.st = "closed"]
               [] r.tag = "Lagged" ->
                     MatchesWaitLateSubscribe([q EXCEPT !.lagged = TRUE], lines,
                                              isClosed)
               [] OTHER -> q

\* Matches::wait: loop { match recv().await { Ok(line) => return on a match;
\* Closed => pending().await; Lagged => error!(..) and go round again } }.
RECURSIVE MatchesWait(_, _, _)
MatchesWait(p, lines, isClosed) ==
    IF p.st \notin {"init", "recv"} THEN p
    ELSE LET r == Recv(p.cur, lines, isClosed)
             q == [p EXCEPT !.st = "recv", !.cur = r.cur]
         IN  CASE r.tag = "Ok" ->
                     LET q1 == [q EXCEPT !.got = Append(@, r.line)]
                     IN  IF IsMatch(p.pat, r.line)
                         THEN [q1 EXCEPT !.st = "done"]
                         ELSE MatchesWait(q1, lines, isClosed)
               [] r.tag = "Closed" -> [q EXCEPT !.st = "closed"]
               [] r.tag = "Lagged" ->
                     MatchesWait([q EXCEPT !.lagged = TRUE], lines, isClosed)
               [] OTHER -> q

\* Rule::wait: dispatch on the rule's kind.
RuleWait(p, e, lines, isClosed) ==
    CASE p.kind = "after" -> AfterWait(p, e)
      [] p.kind = "tcp" -> TcpWait(p, e)
      [] p.kind \in {"http", "https"} -> HttpFamilyReady(p, e)
      [] p.kind = "matches" -> MatchesWait(p, lines, isClosed)

\* One poll of every member future of a group.
AndRulesPoll(group, evs, lines, isClosed) ==
    [i \in 1..Len(group) |-> RuleWait(group[i], evs[i], lines, isClosed)]

\* Mutant of AndRulesDone: the group completes with its first member
\* (FuturesUnordered::next in place of collect).
AndRulesDoneAny(group) ==
    \E i \in 1..Len(group) : group[i].st = "done"

\* AndRules::wait completes: a single rule is awaited directly, several rules
\* are collected from a FuturesUnordered, which ends when all have completed.
AndRulesDone(group) ==
    IF Len(group) = 1
    THEN group[1].st = "done"
    ELSE \A i \in 1..Len(group) : group[i].st = "done"

\* FuturesUnordered::next over the groups, one poll: the groups are polled in
\* the order `order` they were woken in, and next() returns at the first one
\* that completes; the groups behind it in the order are not polled.
RECURSIVE FuturesNext(_, _, _, _, _)
FuturesNext(or, order, evs, lines, isClosed) ==
    IF order = <<>> THEN [probes |-> or, done |-> FALSE]
    ELSE LET g == Head(order)
             polled == AndRulesPoll(or[g], evs[g], lines, isClosed)
             next == [or EXCEPT ![g] = polled]
         IN  IF AndRulesDone(polled)
             THEN [probes |-> next, done |-> TRUE]
             ELSE FuturesNext(next, Tail(order), evs, lines, isClosed)

\* OrRules::wait, one poll: a single group is awaited directly, several
\* groups through FuturesUnordered::next.
OrRulesWait(or, order, evs, lines, isClosed) ==
    IF Len(or) = 1
    THEN LET polled == AndRulesPoll(or[1], evs[1], lines, isClosed)
         IN  [probes |-> <<polled>>, done |-> AndRulesDone(polled)]
    ELSE FuturesNext(or, order, evs, lines, isClosed)

\* The orders in which n futures may be polled.
Orders(n) ==
    {o \in [1..n -> 1..n] : \A i, j \in 1..n : o[i] = o[j] => i = j}

\* Dropping a future that has not completed cancels it: it is never polled
\* again.
Drop(p) == IF p.st = "done" THEN p ELSE [p EXCEPT !.st = "dropped"]

\* Mutant of DropRules: the futures are kept alive.
DropRulesKeeps(or) == or

DropRules(or) ==
    [g \in 1..Len(or) |-> [i \in 1..Len(or[g]) |-> Drop(or[g][i])]]

\* -------------------------------------------------------------- retry loop

Fails == {"DidntSpawn", "ExitedWhileStarting", "TimedOutWhileStarting"}
OutcomeSet == Fails \cup {"ExitedWhileReady"}

\* Mutant of MatchOutcome: a timed-out attempt is not counted.
MatchOutcomeSkipsTimeout(n, outcome) ==
    IF outcome = "ExitedWhileReady" THEN 0
    ELSE IF outcome = "TimedOutWhileStarting" THEN n
    ELSE n + 1

\* main: the match on the outcome.
MatchOutcome(n, outcome) ==
    IF outcome = "ExitedWhileReady" THEN 0 ELSE n + 1

\* Mutant of CeilingReached: the comparison is strict.
CeilingReachedStrict(r, n) == r.some /\ n > r.v

\* Mutant of CeilingReached: an unset ceiling counts as a ceiling of 0.
CeilingReachedUnset(r, n) == n >= r.v

\* main: if let Some(retries) = args.retries { if attempts >= retries { return } }
CeilingReached(r, n) == r.some /\ n >= r.v

\* run_server returns `outcome` to main, which matches on it.
Return(outcome) ==
    /\ attempts' = MatchOutcome(attempts, outcome)
    /\ outcomes' = Append(outcomes, outcome)
    /\ pc' = "check"

\* ------------------------------------------------------------------- Init

\* No rule future exists outside run_server.
NoRules == DropRules(OrRulesBuild(rules, 0))

\* The state of main before the first launch, for a given command line.
Start ==
    /\ attempts = 0
    /\ pc = "launch"
    /\ outcomes = <<>>
    /\ launches = 0
    /\ child = "none"
    /\ killed = FALSE
    /\ log = <<>>
    /\ closed = FALSE
    /\ reader = "none"
    /\ mirror = [st |-> "none", cur |-> 0]
    /\ elapsed = FALSE
    /\ probes = NoRules
    /\ taken = {}
    /\ lagSeen = FALSE
    /\ written = <<>>
    /\ mlagged = FALSE
    /\ events = <<>>
    /\ aborted = 0

\* No read_task buffer and no duration literal are looked at.
Idle ==
    /\ pipe = <<>>
    /\ buffer = <<>>
    /\ count = 0
    /\ input = <<>>
    /\ parsed = [st |-> "none", secs |-> 0, nanos |-> 0]

\* The retry loop: every retry ceiling, a command that prints one line.
Init ==
    /\ retries \in {NoRetries} \cup {SomeRetries(n) : n \in 0..MaxRetries}
    /\ starting_timeout \in BOOLEAN
    /\ rules \in {<< <<Matches({"ready"})>> >>}
    /\ script \in {<<"foo">>, <<"ready">>}
    /\ Start
    /\ Idle

\* One attempt in detail: every rule expression and every command output.
InitAttempt ==
    /\ retries \in {SomeRetries(0)}
    /\ starting_timeout \in BOOLEAN
    /\ rules \in RuleSets
    /\ script \in Scripts
    /\ Start
    /\ Idle

\* ---------------------------------------------------------------- actions

InAttempt == pc \in {"starting", "kill", "drainES", "drainTO", "ready", "drainER"}

ChildGone == child \in {"exited", "killed"}

\* Mutant of TaskFinished: the task ends with read_task, without waiting for
\* stdout_task (a select in place of the join).
TaskFinishedReaderOnly == reader \in {"done", "failed", "panicked"}

\* The JoinHandle of handle_stdout is ready: join(read_task, stdout_task)
\* has completed, or the task has panicked.
TaskFinished ==
    \/ reader \in {"done", "failed"} /\ mirror.st = "done"
    \/ reader = "panicked"

\* run_server's locals go out of scope: the rule futures, the child handle
\* (kill_on_drop) and the ScopedTask (abort) are dropped.
DropLocals ==
    /\ probes' = NoRules
    /\ child' = "none"
    /\ killed' = FALSE
    /\ log' = <<>>
    /\ closed' = FALSE
    /\ reader' = "none"
    /\ mirror' = [st |-> "none", cur |-> 0]
    /\ elapsed' = FALSE
    /\ taken' = {}
    /\ written' = <<>>
    /\ mlagged' = FALSE

\* run_server: builder.spawn() fails.
SpawnFail ==
    /\ pc = "launch"
    /\ launches < MaxLaunches
    /\ launches' = launches + 1
    /\ events' = events \o <<"attempt", "spawning command",
                              "command failed to spawn">>
    /\ Return("DidntSpawn")
    /\ DropLocals
    /\ UNCHANGED <<config, lagSeen,
                   aborted, detail>>

\* run_server: the channel is created, the rules are built (every Matches
\* subscribes), the child is spawned, handle_stdout is spawned as a
\* ScopedTask and the timeout is armed.
SpawnOk ==
    /\ pc = "launch"
    /\ launches < MaxLaunches
    /\ launches' = launches + 1
    /\ pc' = "starting"
    /\ probes' = OrRulesBuild(rules, 0)
    /\ child' = "running"
    /\ killed' = FALSE
    /\ log' = <<>>
    /\ closed' = FALSE
    /\ reader' = "running"
    /\ mirror' = [st |-> "running", cur |-> 0]
    /\ elapsed' = FALSE
    /\ taken' = {}
    /\ written' = <<>>
    /\ mlagged' = FALSE
    /\ events' = events \o <<"attempt", "spawning command">>
    /\ UNCHANGED <<config, attempts, outcomes, lagSeen,
                   aborted, detail>>

\* The child exits on its own.
ChildExit ==
    /\ child = "running"
    /\ child' = "exited"
    /\ UNCHANGED <<config, attempts, pc, outcomes, launches, killed, log, closed,
                   reader, mirror, elapsed, probes, taken, lagSeen,
                   written, mlagged, events, aborted, detail>>

\* read_task: a line the child printed is read and broadcast.send(line).
ReaderBroadcast ==
    /\ reader = "running"
    /\ Len(log) < Len(script)
    /\ log' = Append(log, script[Len(log) + 1])
    /\ UNCHANGED <<config, attempts, pc, outcomes, launches, child, killed, closed,
                   reader, mirror, elapsed, probes, taken, lagSeen,
                   written, mlagged, events, aborted, detail>>

\* read_task: Ok(0) => return Ok(()); the Sender it owns is dropped.
ReaderEof ==
    /\ reader = "running"
    /\ ChildGone
    /\ reader' = "done"
    /\ closed' = TRUE
    /\ UNCHANGED <<config, attempts, pc, outcomes, launches, child, killed, log,
                   mirror, elapsed, probes, taken, lagSeen,
                   written, mlagged, events, aborted, detail>>

\* Mutant of MirrorStep: a lag notification ends the mirror like Closed does.
MirrorStepStopsOnLag ==
    /\ mirror.st = "running"
    /\ LET r == Recv(mirror.cur, log, closed)
       IN  /\ r.tag # "Pending"
           /\ mirror' = IF r.tag \in {"Closed", "Lagged"}
                        THEN [mirror EXCEPT !.st = "done", !.cur = r.cur]
                        ELSE [mirror EXCEPT !.cur = r.cur]
           /\ written' = IF r.tag = "Ok" THEN Append(written, r.line) ELSE written
           /\ mlagged' = (mlagged \/ r.tag = "Lagged")
    /\ UNCHANGED <<config, attempts, pc, outcomes, launches, child, killed, log,
                   closed, reader, elapsed, probes, taken, lagSeen,
                   events, aborted, detail>>

\* stdout_task of handle_stdout: one lines.recv().
MirrorStep ==
    /\ mirror.st = "running"
    /\ LET r == Recv(mirror.cur, log, closed)
       IN  /\ r.tag # "Pending"
           /\ mirror' = IF r.tag = "Closed"
                        THEN [mirror EXCEPT !.st = "done"]
                        ELSE [mirror EXCEPT !.cur = r.cur]
           /\ written' = IF r.tag = "Ok" THEN Append(written, r.line) ELSE written
           /\ mlagged' = (mlagged \/ r.tag = "Lagged")
    /\ UNCHANGED <<config, attempts, pc, outcomes, launches, child, killed, log,
                   closed, reader, elapsed, probes, taken, lagSeen,
                   events, aborted, detail>>

\* The deadline Instant::now() + duration of this attempt passes.
TimeoutElapses ==
    /\ starting_timeout
    /\ pc \in {"starting", "ready"}
    /\ ~elapsed
    /\ elapsed' = TRUE
    /\ UNCHANGED <<config, attempts, pc, outcomes, launches, child, killed, log,
                   closed, reader, mirror, probes, taken, lagSeen,
                   written, mlagged, events, aborted, detail>>

\* The events a future may find when it is polled.
EventsFor(p) ==
    CASE p.st \in {"sleep", "backoff"} -> {"none", "tick"}
      [] p.st = "connect" ->
            IF p.tries < MaxTries
            THEN {"none", "ok", "err", "late"}
            ELSE {"none", "ok"}
      [] OTHER -> {"none"}

\* All sequences that pick one element from each set of a sequence of sets.
RECURSIVE Choices(_)
Choices(sets) ==
    IF sets = <<>> THEN {<<>>}
    ELSE {<<h>> \o t : h \in Head(sets), t \in Choices(Tail(sets))}

\* Every way the timers and the network may have moved since the last poll:
\* one event per future.
EventChoices(or) ==
    Choices([g \in 1..Len(or) |->
                Choices([i \in 1..Len(or[g]) |-> EventsFor(or[g][i])])])

AnyLagged(or) == \E g \in 1..Len(or) : \E i \in 1..Len(or[g]) : or[g][i].lagged

\* Mutant of SelectBiased: the child's exit is looked at before the rules.
SelectChildFirst(rulesDone, childDone, timeoutDone) ==
    IF childDone THEN "exit"
    ELSE IF rulesDone THEN "rules"
    ELSE IF timeoutDone THEN "timeout"
    ELSE "none"

\* The arm select_biased! takes in one poll, "none" when all three are pending:
\* rules first, then child.wait(), then starting_timeout.
SelectBiased(rulesDone, childDone, timeoutDone) ==
    IF rulesDone THEN "rules"
    ELSE IF childDone THEN "exit"
    ELSE IF timeoutDone THEN "timeout"
    ELSE "none"

\* run_server in the Starting state: one poll of the select_biased!.
PollStarting ==
    /\ pc = "starting"
    /\ \E order \in Orders(Len(probes)), evs \in EventChoices(probes) :
         LET r == OrRulesWait(probes, order, evs, log, closed)
             timeoutDone == starting_timeout /\ elapsed
             arm == SelectBiased(r.done, ChildGone, timeoutDone)
             took == [arm |-> arm, rules |-> r.done, exit |-> ChildGone,
                      timeout |-> timeoutDone]
         IN  /\ lagSeen' = (lagSeen \/ AnyLagged(r.probes))
             /\ events' = IF arm = "rules"
                           THEN Append(events, "server is now ready")
                           ELSE events
             /\ CASE arm = "rules" ->
                       /\ pc' = "ready"
                       /\ probes' = DropRules(r.probes)
                       /\ taken' = taken \cup {took}
                  [] arm = "exit" ->
                       /\ pc' = "drainES"
                       /\ probes' = r.probes
                       /\ taken' = taken \cup {took}
                  [] arm = "timeout" ->
                       /\ pc' = "kill"
                       /\ probes' = r.probes
                       /\ taken' = taken \cup {took}
                  [] OTHER ->
                       /\ r.probes # probes
                       /\ pc' = pc
                       /\ probes' = r.probes
                       /\ taken' = taken
    /\ UNCHANGED <<config, attempts, outcomes, launches, child, killed, log,
                   closed, reader, mirror, elapsed,
                   written, mlagged, aborted, detail>>

\* Mutant of Kill: the timeout arm goes on to the drain without killing.
KillSkipped ==
    /\ pc = "kill"
    /\ pc' = "drainTO"
    /\ UNCHANGED <<config, attempts, outcomes, launches, child, killed, log,
                   closed, reader, mirror, elapsed, probes, taken, lagSeen,
                   written, mlagged, events, aborted, detail>>

\* run_server, timeout arm: child.kill().await.
Kill ==
    /\ pc = "kill"
    /\ child' = IF child = "running" THEN "killed" ELSE child
    /\ killed' = TRUE
    /\ pc' = "drainTO"
    /\ UNCHANGED <<config, attempts, outcomes, launches, log, closed, reader,
                   mirror, elapsed, probes, taken, lagSeen,
                   written, mlagged, events, aborted, detail>>

\* Mutant of ReadyChildExit: in the Ready state run_server waits for the log
\* task in place of the child.
ReadyTaskFinished ==
    /\ pc = "ready"
    /\ TaskFinished
    /\ pc' = "drainER"
    /\ UNCHANGED <<config, attempts, outcomes, launches, child, killed, log,
                   closed, reader, mirror, elapsed, probes, taken, lagSeen,
                   written, mlagged, events, aborted, detail>>

\* Mutant of ReadyChildExit: the timeout is still raced in the Ready state.
ReadyChildExitOrTimeout ==
    /\ pc = "ready"
    /\ \/ ChildGone /\ pc' = "drainER"
       \/ ~ChildGone /\ starting_timeout /\ elapsed /\ pc' = "kill"
    /\ UNCHANGED <<config, attempts, outcomes, launches, child, killed, log,
                   closed, reader, mirror, elapsed, probes, taken, lagSeen,
                   written, mlagged, events, aborted, detail>>

\* run_server in the Ready state: child.wait().await returns.
ReadyChildExit ==
    /\ pc = "ready"
    /\ ChildGone
    /\ pc' = "drainER"
    /\ UNCHANGED <<config, attempts, outcomes, launches, child, killed, log,
                   closed, reader, mirror, elapsed, probes, taken, lagSeen,
                   written, mlagged, events, aborted, detail>>

\* Mutant of ScopedTaskDrop: the wrapper is dropped like a bare JoinHandle,
\* which detaches the task.
ScopedTaskDropDetaches(n) == n

\* ScopedTask::drop: self.task.abort().  n is the number of abort requests
\* made so far.
ScopedTaskDrop(n) == n + 1

\* The outcome each stdout_task.await is followed by.
DrainOutcome(at) ==
    CASE at = "drainES" -> "ExitedWhileStarting"
      [] at = "drainTO" -> "TimedOutWhileStarting"
      [] at = "drainER" -> "ExitedWhileReady"

\* run_server: stdout_task.await returns and the outcome is returned to main.
Drained ==
    /\ pc \in {"drainES", "drainTO", "drainER"}
    /\ TaskFinished
    /\ Return(DrainOutcome(pc))
    /\ aborted' = ScopedTaskDrop(aborted)
    /\ DropLocals
    /\ UNCHANGED <<config, launches, lagSeen,
                   events, detail>>

\* main: the retry ceiling is compared, and the loop goes round or returns.
Check ==
    /\ pc = "check"
    /\ pc' = IF CeilingReached(retries, attempts) THEN "done" ELSE "launch"
    /\ events' = IF CeilingReached(retries, attempts)
                  THEN Append(events, "command failed to start")
                  ELSE events
    /\ UNCHANGED <<config, attempts, outcomes, launches, child, killed, log,
                   closed, reader, mirror, elapsed, probes, taken, lagSeen,
                   written, mlagged, aborted, detail>>

Next ==
    \/ SpawnFail
    \/ SpawnOk
    \/ ChildExit
    \/ ReaderBroadcast
    \/ ReaderEof
    \/ MirrorStep
    \/ TimeoutElapses
    \/ PollStarting
    \/ Kill
    \/ ReadyChildExit
    \/ Drained
    \/ Check

Spec == Init /\ [][Next]_vars

SpecAttempt == InitAttempt /\ [][Next]_vars

\* The runtime goes on polling a task that has been woken, time passes, and a
\* pipe whose writer is gone reaches end-of-file.
Fairness ==
    /\ WF_vars(TimeoutElapses)
    /\ WF_vars(PollStarting)
    /\ WF_vars(Kill)
    /\ WF_vars(ReaderEof)
    /\ WF_vars(MirrorStep)
    /\ WF_vars(Drained)

FairSpec == Init /\ [][Next]_vars /\ Fairness

\* ------------------------------------------------- a failing stdout task

\* read_task: a read of the pipe returns an error other than Interrupted:
\* Err(err) => return Err(err); the Sender it owns is dropped.
ReaderError ==
    /\ reader = "running"
    /\ reader' = "failed"
    /\ closed' = TRUE
    /\ UNCHANGED <<config, attempts, pc, outcomes, launches, child, killed, log,
                   mirror, elapsed, probes, taken, lagSeen,
                   written, mlagged, events, aborted, detail>>

\* read_task panics at &buffer[count..n], on a read shorter than what is
\* buffered; which read that is depends on how the pipe splits the child's
\* output, which is left open here.  The panic unwinds the spawned task:
\* read_task and stdout_task are dropped, and the Sender with them.
ReaderPanic ==
    /\ reader = "running"
    /\ reader' = "panicked"
    /\ closed' = TRUE
    /\ mirror' = IF mirror.st = "running"
                 THEN [mirror EXCEPT !.st = "dropped"]
                 ELSE mirror
    /\ UNCHANGED <<config, attempts, pc, outcomes, launches, child, killed, log,
                   elapsed, probes, taken, lagSeen,
                   written, mlagged, events, aborted, detail>>

\* The supervisor with a pipe that may fail: a ceiling of one failed attempt,
\* a Matches rule alone and beside a Tcp rule, a command that prints a line
\* the rule does not match and one that prints MaxLines lines of which the
\* rule matches the last.
InitTask ==
    /\ retries \in {SomeRetries(1)}
    /\ starting_timeout \in BOOLEAN
    /\ rules \in { << <<Matches({"ready"})>> >>,
                   << <<Tcp>>, <<Matches({"ready"})>> >> }
    /\ script \in {<<"foo">>,
                    [i \in 1..MaxLines |-> IF i = MaxLines THEN "ready" ELSE "foo"]}
    /\ Start
    /\ Idle

NextTask ==
    \/ Next
    \/ ReaderError
    \/ ReaderPanic

SpecTask == InitTask /\ [][NextTask]_vars

\* ------------------------------------------- handle_stdout, byte by byte

\* b'\n'.
LF == 10

\* The bytes the child writes: a line feed and one other byte (b'a').
Bytes == {LF, 97}

\* The results pipe.read_buf can return: Ok(n) with the n bytes it appended
\* to the buffer (n = 0 at end of stream), Err of kind Interrupted, and any
\* other Err.
ReadOk(bytes) == [kind |-> "Ok", bytes |-> bytes]
ReadInterrupted == [kind |-> "Interrupted", bytes |-> <<>>]
ReadErr == [kind |-> "Err", bytes |-> <<>>]

\* The non-empty reads explored: every split of the child's output into
\* reads of at most MaxChunk bytes.
Chunks == UNION {[1..n -> Bytes] : n \in 1..MaxChunk}

\* The read sequences explored: at most MaxReads reads that return bytes or
\* are interrupted, then the end of the stream or an I/O error.
Pipes ==
    {reads \o <<end>> :
        reads \in UNION {[1..k -> {ReadOk(c) : c \in Chunks} \cup {ReadInterrupted}] :
                            k \in 0..MaxReads},
        end \in {ReadOk(<<>>), ReadErr}}

\* memchr(needle, haystack): the 0-based index of the first occurrence.
Memchr(needle, haystack) ==
    LET hits == {i \in 1..Len(haystack) : haystack[i] = needle}
    IN  IF hits = {} THEN [some |-> FALSE, idx |-> 0]
        ELSE [some |-> TRUE,
              idx |-> (CHOOSE i \in hits : \A j \in hits : i <= j) - 1]

\* read_task, the body of the loop after Ok(n) with n > 0: `bytes` are the n
\* bytes read_buf appended to the buffer.
\*     let new_bytes = &buffer[count..n];      panics when count > n
\*     count += n;
\*     let line_length = match memchr(b'\n', new_bytes) {
\*         None => continue, Some(idx) => count - n + idx + 1 };
\*     let line = buffer.split_to(line_length).freeze();
\*     count -= line.len();
\*     broadcast.send(line);
SplitLine(buf, cnt, bytes) ==
    LET n == Len(bytes)
        buffer1 == buf \o bytes
        new_bytes == SubSeq(buffer1, cnt + 1, n)
        count1 == cnt + n
        found == Memchr(LF, new_bytes)
        line_length == count1 - n + found.idx + 1
        line == SubSeq(buffer1, 1, line_length)
    IN  IF cnt > n \/ n > Len(buffer1)
        THEN [panic |-> TRUE, sent |-> FALSE, line |-> <<>>,
              buffer |-> buffer1, count |-> cnt]
        ELSE IF ~found.some
        THEN [panic |-> FALSE, sent |-> FALSE, line |-> <<>>,
              buffer |-> buffer1, count |-> count1]
        ELSE IF line_length > Len(buffer1)
        THEN [panic |-> TRUE, sent |-> FALSE, line |-> <<>>,
              buffer |-> buffer1, count |-> count1]
        ELSE [panic |-> FALSE, sent |-> TRUE, line |-> line,
              buffer |-> SubSeq(buffer1, line_length + 1, Len(buffer1)),
              count |-> count1 - Len(line)]

\* The supervisor does not move while handle_stdout is looked at on its own.
supervisor == <<config, attempts, pc, outcomes, launches, child, killed, elapsed,
                probes, taken, lagSeen, events, aborted, input, parsed>>

\* read_task: Ok(n) => n, with n > 0.  A panic unwinds the spawned task:
\* read_task and stdout_task are dropped, and the Sender with them.
ReadData ==
    /\ reader = "running"
    /\ pipe # <<>>
    /\ Head(pipe).kind = "Ok"
    /\ Head(pipe).bytes # <<>>
    /\ pipe' = Tail(pipe)
    /\ LET r == SplitLine(buffer, count, Head(pipe).bytes)
       IN  /\ buffer' = r.buffer
           /\ count' = r.count
           /\ log' = IF r.sent THEN Append(log, r.line) ELSE log
           /\ reader' = IF r.panic THEN "panicked" ELSE reader
           /\ closed' = (closed \/ r.panic)
           /\ mirror' = IF r.panic /\ mirror.st = "running"
                        THEN [mirror EXCEPT !.st = "dropped"]
                        ELSE mirror
    /\ UNCHANGED <<supervisor, written, mlagged>>

\* Mutant of ReadRetry: an interrupted read is returned like any other error.
ReadRetryEnds ==
    /\ reader = "running"
    /\ pipe # <<>>
    /\ Head(pipe).kind = "Interrupted"
    /\ pipe' = Tail(pipe)
    /\ reader' = "failed"
    /\ closed' = TRUE
    /\ UNCHANGED <<supervisor, written, mlagged, buffer, count, log, mirror>>

\* read_task: Err(err) if err.kind() == io::ErrorKind::Interrupted => continue.
ReadRetry ==
    /\ reader = "running"
    /\ pipe # <<>>
    /\ Head(pipe).kind = "Interrupted"
    /\ pipe' = Tail(pipe)
    /\ UNCHANGED <<supervisor, written, mlagged, buffer, count, log, reader,
                   closed, mirror>>

\* read_task: Ok(0) => return Ok(()); the Sender it owns is dropped.
ReadZero ==
    /\ reader = "running"
    /\ pipe # <<>>
    /\ Head(pipe) = ReadOk(<<>>)
    /\ pipe' = Tail(pipe)
    /\ reader' = "done"
    /\ closed' = TRUE
    /\ UNCHANGED <<supervisor, written, mlagged, buffer, count, log, mirror>>

\* read_task: Err(err) => return Err(err); the Sender it owns is dropped.
ReadFail ==
    /\ reader = "running"
    /\ pipe # <<>>
    /\ Head(pipe).kind = "Err"
    /\ pipe' = Tail(pipe)
    /\ reader' = "failed"
    /\ closed' = TRUE
    /\ UNCHANGED <<supervisor, written, mlagged, buffer, count, log, mirror>>

\* handle_stdout once join(read_task, stdout_task) has completed:
\* read_result?; stdout_result?; Ok(()).  Writes to this process's stdout
\* succeed, so that stdout_result is Ok(()).
HandleStdoutResult(read_result, stdout_result) ==
    IF read_result # "Ok" THEN read_result
    ELSE IF stdout_result # "Ok" THEN stdout_result
    ELSE "Ok"

\* What awaiting the ScopedTask yields: Err(JoinError) when the task
\* panicked, otherwise Ok(the result of handle_stdout).
JoinOutput ==
    IF reader = "panicked" THEN "JoinError"
    ELSE HandleStdoutResult(IF reader = "failed" THEN "Err" ELSE "Ok", "Ok")

\* handle_stdout on its own, as spawned by an attempt in the Starting state:
\* the reads are any sequence of Pipes.
InitStdout ==
    /\ retries = NoRetries
    /\ starting_timeout = FALSE
    /\ rules = << <<After>> >>
    /\ script = <<>>
    /\ attempts = 0
    /\ pc = "starting"
    /\ outcomes = <<>>
    /\ launches = 1
    /\ child = "running"
    /\ killed = FALSE
    /\ log = <<>>
    /\ closed = FALSE
    /\ reader = "running"
    /\ mirror = [st |-> "running", cur |-> 0]
    /\ elapsed = FALSE
    /\ probes = OrRulesBuild(rules, 0)
    /\ taken = {}
    /\ lagSeen = FALSE
    /\ written = <<>>
    /\ mlagged = FALSE
    /\ events = <<"attempt", "spawning command">>
    /\ aborted = 0
    /\ pipe \in Pipes
    /\ buffer = <<>>
    /\ count = 0
    /\ input = <<>>
    /\ parsed = [st |-> "none", secs |-> 0, nanos |-> 0]

NextStdout ==
    \/ ReadData
    \/ ReadRetry
    \/ ReadZero
    \/ ReadFail
    \/ MirrorStep

SpecStdout == InitStdout /\ [][NextStdout]_vars

\* The runtime goes on polling both halves of the join, and the pipe goes on
\* delivering what the child wrote.
FairSpecStdout ==
    /\ InitStdout
    /\ [][NextStdout]_vars
    /\ WF_vars(ReadData \/ ReadRetry \/ ReadZero \/ ReadFail)
    /\ WF_vars(MirrorStep)

\* ------------------------------------------------------ duration literals

\* A character: ch is its lower-case form, up tells whether it is the
\* upper-case one.  "mu" stands for the Greek letter mu, "micro" for the micro
\* sign, which is another character, " " for a space and "tab" for a tab.
Char(c) == [ch |-> c, up |-> FALSE]

Str(cs) == [i \in 1..Len(cs) |-> Char(cs[i])]

\* char::to_lowercase.
ToLowercase(c) == [c EXCEPT !.up = FALSE]

\* std::time::Duration: whole seconds and the nanoseconds of the last one.
NanosPerSec == 1000 * 1000 * 1000
FromSecs(n) == [secs |-> n, nanos |-> 0]
FromMillis(n) == [secs |-> n \div 1000, nanos |-> (n % 1000) * 1000 * 1000]
FromMicros(n) == [secs |-> n \div (1000 * 1000), nanos |-> (n % (1000 * 1000)) * 1000]

\* Duration * u32.
Mul(d, n) ==
    [secs |-> d.secs * n + (d.nanos * n) \div NanosPerSec,
     nanos |-> (d.nanos * n) % NanosPerSec]

\* tag_no_case(tag): the input starts with the tag, compared character by
\* character after to_lowercase; the tag is split off.
TagNoCase(tag, i) ==
    IF /\ Len(i) >= Len(tag)
       /\ \A k \in 1..Len(tag) : ToLowercase(i[k]) = ToLowercase(tag[k])
    THEN [ok |-> TRUE, rest |-> SubSeq(i, Len(tag) + 1, Len(i))]
    ELSE [ok |-> FALSE, rest |-> i]

\* Mutant of ThreeTags: the short form is tried first.
ThreeTagsShortFirst(short, singular, plural, i) ==
    IF TagNoCase(short, i).ok THEN TagNoCase(short, i)
    ELSE IF TagNoCase(singular, i).ok THEN TagNoCase(singular, i)
    ELSE TagNoCase(plural, i)

\* three_tags: alt((tag_no_case(plural), tag_no_case(singular),
\* tag_no_case(short))).
ThreeTags(short, singular, plural, i) ==
    IF TagNoCase(plural, i).ok THEN TagNoCase(plural, i)
    ELSE IF TagNoCase(singular, i).ok THEN TagNoCase(singular, i)
    ELSE TagNoCase(short, i)

\* parse_duration_suffix: the four units in the order of the alt, each with
\* its value.
ParseDurationSuffix(i) ==
    LET s == ThreeTags(Str(<<"s">>), Str(<<"s", "e", "c", "o", "n", "d">>),
                       Str(<<"s", "e", "c", "o", "n", "d", "s">>), i)
        ms == ThreeTags(Str(<<"m", "s">>), Str(<<"m", "i", "l", "l", "i", "s", "e", "c", "o", "n", "d">>),
                        Str(<<"m", "i", "l", "l", "i", "s", "e", "c", "o", "n", "d", "s">>), i)
        us == ThreeTags(Str(<<"mu", "s">>), Str(<<"m", "i", "c", "r", "o", "s", "e", "c", "o", "n", "d">>),
                        Str(<<"m", "i", "c", "r", "o", "s", "e", "c", "o", "n", "d", "s">>), i)
        m == ThreeTags(Str(<<"m">>), Str(<<"m", "i", "n", "u", "t", "e">>),
                       Str(<<"m", "i", "n", "u", "t", "e", "s">>), i)
    IN  IF s.ok THEN [ok |-> TRUE, rest |-> s.rest, value |-> FromSecs(1)]
        ELSE IF ms.ok THEN [ok |-> TRUE, rest |-> ms.rest, value |-> FromMillis(1)]
        ELSE IF us.ok THEN [ok |-> TRUE, rest |-> us.rest, value |-> FromMicros(1)]
        ELSE IF m.ok THEN [ok |-> TRUE, rest |-> m.rest, value |-> FromSecs(60)]
        ELSE [ok |-> FALSE, rest |-> i, value |-> FromSecs(0)]

DigitChars == {"0", "1", "2", "3", "4", "5", "6", "7", "8", "9"}

IsDigit(c) == c.ch \in DigitChars /\ ~c.up

DigitValue(c) ==
    CASE c.ch = "0" -> 0 [] c.ch = "1" -> 1 [] c.ch = "2" -> 2 [] c.ch = "3" -> 3
      [] c.ch = "4" -> 4 [] c.ch = "5" -> 5 [] c.ch = "6" -> 6 [] c.ch = "7" -> 7
      [] c.ch = "8" -> 8 [] c.ch = "9" -> 9

\* The number of leading ASCII digits of i.
RECURSIVE LeadingDigits(_)
LeadingDigits(i) ==
    IF i = <<>> \/ ~IsDigit(Head(i)) THEN 0 ELSE 1 + LeadingDigits(Tail(i))

\* digit0: the longest, possibly empty, run of leading ASCII digits.
Digit0(i) ==
    LET k == LeadingDigits(i)
    IN  [out |-> SubSeq(i, 1, k), rest |-> SubSeq(i, k + 1, Len(i))]

IsSpace(c) == c.ch \in {" ", "tab"}

\* The number of leading spaces and tabs of i.
RECURSIVE LeadingSpaces(_)
LeadingSpaces(i) ==
    IF i = <<>> \/ ~IsSpace(Head(i)) THEN 0 ELSE 1 + LeadingSpaces(Tail(i))

\* space0: the leading spaces and tabs are skipped.
Space0(i) == SubSeq(i, LeadingSpaces(i) + 1, Len(i))

\* The decimal value of a digit run.
RECURSIVE Decimal(_)
Decimal(ds) ==
    IF ds = <<>> THEN 0
    ELSE 10 * Decimal(SubSeq(ds, 1, Len(ds) - 1)) + DigitValue(ds[Len(ds)])

\* parse_from_str into the count type: u32::from_str fails on an empty string
\* and on a value that does not fit.
ParseFromStr(ds) ==
    IF ds = <<>> \/ Decimal(ds) > MaxCount
    THEN [ok |-> FALSE, count |-> 0]
    ELSE [ok |-> TRUE, count |-> Decimal(ds)]

\* parse_duration: digit0.parse_from_str().terminated(space0)
\*     .and(parse_duration_suffix).map(|(count, units)| units * count).
ParseDuration(i) ==
    LET d == Digit0(i)
        n == ParseFromStr(d.out)
        u == ParseDurationSuffix(Space0(d.rest))
    IN  IF n.ok /\ u.ok
        THEN [ok |-> TRUE, rest |-> u.rest, value |-> Mul(u.value, n.count)]
        ELSE [ok |-> FALSE, rest |-> i, value |-> FromSecs(0)]

\* Duration::from_str: final_parser(parse_duration) accepts only when the
\* whole input has been consumed.
FromStr(s) ==
    LET r == ParseDuration(s)
    IN  IF r.ok /\ r.rest = <<>>
        THEN [st |-> "Ok", secs |-> r.value.secs, nanos |-> r.value.nanos]
        ELSE [st |-> "Err", secs |-> 0, nanos |-> 0]

\* The twelve unit forms, each with the value of one unit in microseconds.
UnitForms ==
    { <<Str(<<"s">>), 1000000>>, <<Str(<<"s", "e", "c", "o", "n", "d">>), 1000000>>,
      <<Str(<<"s", "e", "c", "o", "n", "d", "s">>), 1000000>>,
      <<Str(<<"m", "s">>), 1000>>, <<Str(<<"m", "i", "l", "l", "i", "s", "e", "c", "o", "n", "d">>), 1000>>,
      <<Str(<<"m", "i", "l", "l", "i", "s", "e", "c", "o", "n", "d", "s">>), 1000>>,
      <<Str(<<"mu", "s">>), 1>>, <<Str(<<"m", "i", "c", "r", "o", "s", "e", "c", "o", "n", "d">>), 1>>,
      <<Str(<<"m", "i", "c", "r", "o", "s", "e", "c", "o", "n", "d", "s">>), 1>>,
      <<Str(<<"m">>), 60000000>>, <<Str(<<"m", "i", "n", "u", "t", "e">>), 60000000>>,
      <<Str(<<"m", "i", "n", "u", "t", "e", "s">>), 60000000>> }

\* The three spellings explored for a word: lower case, upper case, and with
\* a capital first letter.
Cases(w) ==
    { w,
      [k \in 1..Len(w) |-> [w[k] EXCEPT !.up = TRUE]],
      [k \in 1..Len(w) |-> [w[k] EXCEPT !.up = (k = 1)]] }

\* The literals explored: a digit run of at most MaxDigits digits among 0, 1
\* and 9, an optional space, a unit (a known form in three spellings, none,
\* or an unknown one) and nothing or one more character.
Inputs ==
    { d \o g \o w \o t :
        d \in UNION {[1..n -> {Char("0"), Char("1"), Char("9")}] : n \in 0..MaxDigits},
        g \in {<<>>, Str(<<" ">>)},
        w \in UNION {Cases(f[1]) : f \in UnitForms}
              \cup {<<>>, Str(<<"h">>), Str(<<"s", "e", "c">>), Str(<<"m", "i", "n">>),
                    Str(<<"u", "s">>), Str(<<"micro", "s">>)},
        t \in {<<>>, Str(<<"s">>), Str(<<" ">>), Str(<<"1">>)} }

\* The duration parser on its own: the supervisor has not started.
InitDuration ==
    /\ retries = NoRetries
    /\ starting_timeout = FALSE
    /\ rules = << <<After>> >>
    /\ script = <<>>
    /\ Start
    /\ pipe = <<>>
    /\ buffer = <<>>
    /\ count = 0
    /\ input \in Inputs
    /\ parsed = [st |-> "none", secs |-> 0, nanos |-> 0]

\* <Duration as FromStr>::from_str(input), as structopt calls it for
\* --ready-timeout.
FromStrCall ==
    /\ parsed.st = "none"
    /\ parsed' = FromStr(input)
    /\ UNCHANGED <<config, attempts, pc, outcomes, launches, child, killed, log,
                   closed, reader, mirror, elapsed, probes, taken, lagSeen,
                   written, mlagged, events, aborted, pipe, buffer, count, input>>

NextDuration == FromStrCall

SpecDuration == InitDuration /\ [][NextDuration]_vars

\* ----------------------------------------------------------------- claims

Last(seq) == seq[Len(seq)]

AllFailed == \A k \in 1..Len(outcomes) : outcomes[k] \in Fails

Max(a, b) == IF a >= b THEN a ELSE b

\* The number of outcomes at the end of `seq` that are in Fails.
RECURSIVE TrailingFails(_)
TrailingFails(seq) ==
    IF seq = <<>> \/ Last(seq) \notin Fails THEN 0
    ELSE 1 + TrailingFails(SubSeq(seq, 1, Len(seq) - 1))

\* C1 (as stated): with a retry ceiling of N, N = 0 included, and every
\* attempt failing to start, the command is never launched more than N times
\* and the loop terminates after exactly N increments of the counter.
C1_ExactlyN ==
    (retries.some /\ AllFailed) =>
        /\ launches <= retries.v
        /\ pc = "done" => (attempts = retries.v /\ Len(outcomes) = retries.v)

\* C1 (amended): with a retry ceiling of N and every attempt failing to
\* start, the command is launched max(N, 1) times and no more, and the loop
\* terminates after exactly max(N, 1) increments: N for N >= 1, one for N = 0,
\* because the ceiling is only compared after an attempt.
C1_ExactlyMaxN1 ==
    (retries.some /\ AllFailed) =>
        /\ launches <= Max(retries.v, 1)
        /\ pc = "launch" => Len(outcomes) < Max(retries.v, 1)
        /\ pc = "check" /\ Len(outcomes) >= retries.v => attempts >= retries.v
        /\ pc = "done" =>
              /\ attempts = Max(retries.v, 1)
              /\ Len(outcomes) = Max(retries.v, 1)
              /\ launches = Max(retries.v, 1)

\* C1 witness: a ceiling of 2, two failed attempts, the loop has terminated.
C1_Witness ==
    /\ retries = SomeRetries(2)
    /\ pc = "done"
    /\ AllFailed
    /\ Len(outcomes) = 2

\* C2: the attempt counter equals the number of consecutive outcomes in
\* {DidntSpawn, ExitedWhileStarting, TimedOutWhileStarting} since the most
\* recent ExitedWhileReady, or since the start.
C2_CounterIsStreak == attempts = TrailingFails(outcomes)

\* C2 witness: a counter of 2 after ExitedWhileReady, TimedOutWhileStarting and
\* one more failure.
C2_Witness ==
    /\ Len(outcomes) = 3
    /\ outcomes[1] = "ExitedWhileReady"
    /\ outcomes[2] = "TimedOutWhileStarting"
    /\ outcomes[3] \in Fails
    /\ attempts = 2

\* C3: after each outcome the ceiling is checked; the program terminates
\* there exactly when a ceiling is configured and the counter has reached it,
\* and launches another attempt in every other case; it terminates nowhere
\* else, so with no ceiling it never terminates.
C3_TerminatesIffCeiling ==
    /\ [](~retries.some => pc # "done")
    /\ [](pc = "launch" /\ launches < MaxLaunches => ENABLED (SpawnOk \/ SpawnFail))
    /\ [][/\ Len(outcomes') > Len(outcomes) => pc' = "check"
          /\ pc = "check" =>
                /\ pc' \in {"done", "launch"}
                /\ pc' = "done" <=> (retries.some /\ attempts >= retries.v)
          /\ pc' = "done" => pc \in {"check", "done"}
          /\ pc = "done" => pc' = "done"]_vars

\* C3 witness: another attempt is launched directly after ExitedWhileReady.
C3_Witness ==
    /\ pc = "starting"
    /\ outcomes # <<>>
    /\ Last(outcomes) = "ExitedWhileReady"

Returned == Len(outcomes') > Len(outcomes)

\* C4: in the Starting state exactly one arm of the select is taken per
\* attempt, and it is the first ready one in the order rules, child exit,
\* timeout; rules together with child exit goes to Ready and returns
\* ExitedWhileReady; child exit together with timeout returns
\* ExitedWhileStarting and the child is not killed.
C4_BiasedSelect ==
    /\ [](/\ Cardinality(taken) <= 1
          /\ pc = "starting" => taken = {}
          /\ pc \in {"kill", "drainES", "drainTO", "ready", "drainER"} =>
                Cardinality(taken) = 1
          /\ \A t \in taken :
                /\ t.rules => t.arm = "rules" /\ pc \in {"ready", "drainER"}
                /\ ~t.rules /\ t.exit =>
                      t.arm = "exit" /\ pc = "drainES" /\ ~killed
                /\ ~t.rules /\ ~t.exit =>
                      t.arm = "timeout" /\ t.timeout /\ pc \in {"kill", "drainTO"})
    /\ [][Returned /\ pc \in {"ready", "drainER"} =>
                Last(outcomes') = "ExitedWhileReady"]_vars
    /\ [][Returned /\ pc = "drainES" =>
                Last(outcomes') = "ExitedWhileStarting"]_vars

\* C4 witness: the rules, the child's exit and the timeout were all ready at
\* the poll that left Starting, and the attempt went to Ready.
C4_Witness ==
    /\ pc = "drainER"
    /\ \E t \in taken : t.arm = "rules" /\ t.exit /\ t.timeout

C6_TimeoutOnlyWhileStarting ==
    /\ [](~starting_timeout =>
             /\ ~killed /\ ~elapsed
             /\ pc \notin {"kill", "drainTO"}
             /\ \A k \in 1..Len(outcomes) : outcomes[k] # "TimedOutWhileStarting")
    /\ [](pc \in {"kill", "drainTO"} =>
             starting_timeout /\ elapsed /\ \A t \in taken : t.arm = "timeout")
    /\ [](pc \in {"ready", "drainER"} => ~killed /\ child # "killed")
    /\ [][/\ killed' /\ ~killed => pc = "kill"
          /\ pc' = "kill" /\ pc # "kill" => pc = "starting"
          /\ Returned /\ Last(outcomes') = "TimedOutWhileStarting" => pc = "drainTO"
          /\ pc = "launch" /\ pc' = "starting" => ~elapsed'
          /\ pc = "ready" =>
                /\ pc' \in {"ready", "drainER"}
                /\ pc' = "drainER" => ChildGone
                /\ elapsed' # elapsed =>
                      UNCHANGED <<pc, child, killed, attempts, outcomes, probes>>
          /\ pc = "drainER" =>
                \/ pc' = "drainER"
                \/ pc' = "check" /\ Last(outcomes') = "ExitedWhileReady"]_vars

\* C6 witness: the attempt is Ready, the timeout has elapsed since, the child
\* has exited and was not killed, and ExitedWhileReady is about to be returned.
C6_Witness ==
    /\ pc = "drainER"
    /\ starting_timeout /\ elapsed
    /\ \E t \in taken : t.arm = "rules" /\ ~t.timeout
    /\ child = "exited" /\ ~killed
    /\ TaskFinished

GroupAllDone(g) == \A i \in 1..Len(probes[g]) : probes[g][i].st = "done"

\* C7: the attempt is Ready only if every probe of some AndGroup has
\* signalled; while a group has a member that has not signalled the group
\* has not completed and none of its probes is cancelled; a group all of
\* whose probes have signalled has completed (the attempt has left Starting).
C7_AndWaitsForAll ==
    /\ pc \in {"ready", "drainER"} => \E g \in 1..Len(probes) : GroupAllDone(g)
    /\ pc \in {"starting", "kill", "drainES", "drainTO"} =>
          /\ \A g \in 1..Len(probes) : ~GroupAllDone(g)
          /\ \A g \in 1..Len(probes) : \A i \in 1..Len(probes[g]) :
                probes[g][i].st # "dropped"

\* C7 witness: the attempt is Ready through a group of two probes, both of
\* which have signalled.
C7_Witness ==
    /\ pc = "ready"
    /\ \E g \in 1..Len(probes) : Len(probes[g]) = 2 /\ GroupAllDone(g)

\* C8: an OrGroup completes at the poll in which its first AndGroup
\* completes; from then on exactly that group is complete, every probe that
\* has not signalled is dropped, and no probe changes again in the attempt.
C8_OrDropsLosers ==
    /\ [](pc = "starting" => \A g \in 1..Len(probes) : ~GroupAllDone(g))
    /\ [](pc \in {"ready", "drainER"} =>
             /\ Cardinality({g \in 1..Len(probes) : GroupAllDone(g)}) = 1
             /\ \A g \in 1..Len(probes) : \A i \in 1..Len(probes[g]) :
                   probes[g][i].st \in {"done", "dropped"})
    /\ [][(pc \in {"ready", "drainER"} /\ ~Returned) => probes' = probes]_vars

\* C8 witness: an OrGroup of two groups has completed, and a probe of the
\* losing group was dropped with a connection attempt in flight.
C8_Witness ==
    /\ pc = "ready"
    /\ Len(probes) = 2
    /\ \E g \in 1..Len(probes) : \E i \in 1..Len(probes[g]) :
          probes[g][i].st = "dropped" /\ probes[g][i].tries >= 1

\* C9: a Matches probe has signalled exactly when the last line it received
\* is the first received line its pattern matches; the lines it receives are
\* the broadcast lines in order (all of them, from the first, when it never
\* lagged); after it has signalled it receives nothing more.
C9_MatchesFirstMatch ==
    /\ [](\A g \in 1..Len(probes) : \A i \in 1..Len(probes[g]) :
            LET p == probes[g][i]
            IN  p.kind = "matches" =>
                  /\ \A j \in 1..Len(p.got) :
                        IsMatch(p.pat, p.got[j]) <=> (p.st = "done" /\ j = Len(p.got))
                  /\ p.st = "done" => p.got # <<>>
                  /\ ~p.lagged => p.got = SubSeq(log, 1, p.cur)
                  /\ p.got # <<>> => Last(p.got) = log[p.cur])
    /\ [][\A g \in 1..Len(probes) : \A i \in 1..Len(probes[g]) :
            (probes[g][i].st = "done" /\ ~Returned) =>
                probes'[g][i] = probes[g][i]]_vars

\* C9 witness: a Matches probe has received "foo", which it does not match,
\* and then "ready", and has signalled.
C9_Witness ==
    \E g \in 1..Len(probes) : \E i \in 1..Len(probes[g]) :
        /\ probes[g][i].kind = "matches"
        /\ probes[g][i].st = "done"
        /\ probes[g][i].got = <<"foo", "ready">>

\* C10 (as stated): once a Matches probe has received a lag notification the
\* program has stopped: the supervisor moves no further, no probe receives
\* another line or signals, and nothing is launched.
C10_LagIsFatal ==
    [][lagSeen => UNCHANGED <<pc, probes, launches, attempts>>]_vars

\* The number of line-feed bytes of a message.
LineFeeds(bytes) == Cardinality({i \in 1..Len(bytes) : bytes[i] = LF})

\* C11 (as stated): every message the reader broadcasts holds exactly one
\* line-feed byte, and that byte is its last byte, however the child's output
\* is split across the reads.
C11_OneLinePerMessage ==
    \A k \in 1..Len(log) :
        /\ log[k] # <<>>
        /\ LineFeeds(log[k]) = 1
        /\ Last(log[k]) = LF

\* C12 (as stated): when the read that returns 0 bytes has been handled, no
\* completed line is left in the reader's buffer: every line feed the reader
\* has read is in a message it has broadcast.
C12_NothingLeftAtEof ==
    reader = "done" => LineFeeds(buffer) = 0

\* sub is an order-preserving subsequence of seq.
RECURSIVE IsSubSeq(_, _)
IsSubSeq(sub, seq) ==
    IF sub = <<>> THEN TRUE
    ELSE IF seq = <<>> THEN FALSE
    ELSE IF Head(sub) = Head(seq) THEN IsSubSeq(Tail(sub), Tail(seq))
    ELSE IsSubSeq(sub, Tail(seq))

\* The last n elements of seq (all of it when it is shorter).
Suffix(seq, n) == SubSeq(seq, Max(1, Len(seq) - n + 1), Len(seq))

\* C13: what the mirror has written is an order-preserving subsequence of
\* what has been broadcast, and is all of it up to the mirror's position when
\* the mirror never lagged (the whole broadcast sequence when it has ended);
\* every write is of the next broadcast line; a lag notification neither
\* ends nor fails the mirror, which goes on from the oldest line the channel
\* still retains.
C13_MirrorKeepsOrder ==
    /\ [](/\ IsSubSeq(written, SubSeq(log, 1, mirror.cur))
          /\ ~mlagged => written = SubSeq(log, 1, mirror.cur)
          /\ mirror.st = "done" /\ ~mlagged => written = log
          /\ mirror.st = "done" => closed /\ mirror.cur = Len(log))
    /\ [][/\ written' # written =>
                /\ mirror.cur < Len(log)
                /\ written' = Append(written, log[mirror.cur + 1])
                /\ mirror'.cur = mirror.cur + 1
          /\ (mirror'.cur # mirror.cur /\ written' = written) =>
                /\ mlagged'
                /\ mirror'.st = "running"
                /\ mirror'.cur = Len(log) - ChanCap
                /\ Len(log) - mirror.cur > ChanCap]_vars

\* C13 witness: the mirror lagged, went on to write a line that was still
\* retained, and ended at the close of the channel.
C13_Witness ==
    /\ mlagged
    /\ written # <<>>
    /\ Len(written) < Len(log)
    /\ mirror.st = "done"

Spawned == Cardinality({k \in 1..Len(outcomes) : outcomes[k] # "DidntSpawn"})

\* C14: each ScopedTask that has been dropped was asked to abort, on every
\* return path of run_server after the spawn; when run_server returns, the
\* attempt's stdout task has finished and is asked to abort, and no stdout
\* task exists between attempts, so that a new attempt starts with none
\* running.
C14_DropAborts ==
    /\ [](aborted = Spawned)
    /\ [](pc \in {"launch", "check", "done"} =>
             reader = "none" /\ mirror.st = "none")
    /\ [][(Returned /\ Last(outcomes') # "DidntSpawn") =>
             /\ reader # "none"
             /\ TaskFinished \/ aborted' > aborted
             /\ aborted' = aborted + 1
             /\ reader' = "none" /\ mirror'.st = "none"]_vars
    /\ [][launches' > launches => reader = "none" /\ mirror.st = "none"]_vars

\* C14 witness: a second attempt is running its own stdout task after the
\* first attempt's task was dropped.
C14_Witness ==
    /\ aborted = 1
    /\ launches = 2
    /\ pc = "starting"
    /\ reader = "running"

MatchesProbes ==
    {gi \in UNION {{<<g, i>> : i \in 1..Len(probes[g])} : g \in 1..Len(probes)} :
        probes[gi[1]][gi[2]].kind = "matches"}

\* C18: a Matches probe that finds the channel closed before it has received
\* a line it matches is pending from then on: it never signals, it receives
\* nothing more, and it changes only by being dropped with the attempt; a
\* Matches probe signals only on a matching line.  The attempt is then
\* decided by another group, the child's exit or the timeout: it does not
\* become Ready through that probe's group, and it still ends.
C18_ClosedStaysPending ==
    /\ [](\A gi \in MatchesProbes :
            LET p == probes[gi[1]][gi[2]]
            IN  /\ p.st = "closed" =>
                      /\ closed
                      /\ p.cur = Len(log)
                      /\ \A j \in 1..Len(p.got) : ~IsMatch(p.pat, p.got[j])
                      /\ ~GroupAllDone(gi[1])
                /\ p.st = "done" =>
                      /\ p.got # <<>>
                      /\ IsMatch(p.pat, Last(p.got)))
    /\ [][\A gi \in MatchesProbes :
            (probes[gi[1]][gi[2]].st = "closed" /\ ~Returned) =>
                \/ probes'[gi[1]][gi[2]] = probes[gi[1]][gi[2]]
                \/ /\ probes'[gi[1]][gi[2]] = Drop(probes[gi[1]][gi[2]])
                   /\ pc = "starting" /\ pc' = "ready"
                   /\ \E g \in 1..Len(probes) : g # gi[1] /\ GroupAllDone(g)']_vars
    /\ [][(Returned /\ \E gi \in MatchesProbes : probes[gi[1]][gi[2]].st = "closed")
             => Last(outcomes') \in {"ExitedWhileStarting", "TimedOutWhileStarting"}]_vars

\* C18 witness: the channel closed while the child was running, the Matches
\* probe is pending on it, and the timeout has decided the attempt.
C18_Witness ==
    /\ pc = "kill"
    /\ child = "running"
    /\ closed
    /\ \E gi \in MatchesProbes : probes[gi[1]][gi[2]].st = "closed"

\* C19 (as stated): when the stdout task has failed (it panicked, or its
\* read returned an error), the attempt is not reported as an ordinary
\* ExitedWhileStarting, TimedOutWhileStarting or ExitedWhileReady.
C19_JoinFailurePropagates ==
    [][(Returned /\ reader # "none" /\ JoinOutput # "Ok") =>
          Last(outcomes') \notin
              {"ExitedWhileStarting", "TimedOutWhileStarting", "ExitedWhileReady"}]_vars

\* The value of one unit of the form written u, in microseconds.
UnitMicros(u) == (CHOOSE f \in UnitForms : f[1] = u)[2]

\* u in lower case.
Lowered(u) == [k \in 1..Len(u) |-> [u[k] EXCEPT !.up = FALSE]]

IsUnitForm(u) == \E f \in UnitForms : f[1] = Lowered(u)

RECURSIVE SinceSpawn(_)
SinceSpawn(evs) ==
    IF evs = <<>> \/ Last(evs) = "spawning command" THEN <<>>
    ELSE Append(SinceSpawn(SubSeq(evs, 1, Len(evs) - 1)), Last(evs))

\* The events of the program that name an outcome: "command failed to spawn"
\* names DidntSpawn; "server is now ready" and "command failed to start" name
\* none of the four.
Identifies(event, outcome) ==
    event = "command failed to spawn" /\ outcome = "DidntSpawn"

\* C20 (as stated): when the program goes on from an outcome, to the next
\* launch or to its end, an event that identifies the outcome has been
\* emitted since the attempt was spawned.
C20_OutcomeLogged ==
    [][(pc = "check" /\ pc' # "check") =>
          \E k \in 1..Len(SinceSpawn(events')) :
              Identifies(SinceSpawn(events')[k], Last(outcomes))]_vars

\* The Tcp, Http and Https probes of the attempt, as <<group, index>> pairs.
TransportProbes ==
    {gi \in UNION {{<<g, i>> : i \in 1..Len(probes[g])} : g \in 1..Len(probes)} :
        probes[gi[1]][gi[2]].kind \in {"tcp", "http", "https"}}

\* C21: a failed connection attempt or request of a Tcp, Http or Https probe
\* does not complete the probe, returns no outcome and ends nothing: the
\* probe starts its next attempt only once the sleep_until(now + 1s) of the
\* failed one has completed, and it signals only from an attempt that
\* succeeded, the first such.
C21_TransportFailureRetried ==
    /\ [](\A gi \in TransportProbes :
            LET p == probes[gi[1]][gi[2]]
            IN  /\ p.st = "init" => p.tries = 0 /\ p.fails = 0 /\ p.slept = 0
                /\ p.st = "connect" => p.tries = p.fails + 1 /\ p.slept = p.fails
                /\ p.st = "backoff" => p.tries = p.fails /\ p.slept + 1 = p.fails
                /\ p.st = "done" => p.tries = p.fails + 1 /\ p.slept = p.fails
                /\ p.slept <= p.fails /\ p.fails <= p.tries)
    /\ [][\A gi \in TransportProbes :
            LET p == probes[gi[1]][gi[2]]
                q == probes'[gi[1]][gi[2]]
            IN  (~Returned) =>
                  /\ q.fails > p.fails =>
                        /\ p.st = "connect"
                        /\ q.fails = p.fails + 1
                        /\ q.st \in {"backoff", "connect", "dropped"}
                        /\ outcomes' = outcomes
                        /\ pc' \notin {"check", "done"}
                  /\ q.tries > p.tries =>
                        /\ q.tries = p.tries + 1
                        /\ q.slept = q.fails
                  /\ (q.st = "done" /\ p.st # "done") =>
                        /\ p.st = "connect"
                        /\ q.fails = p.fails
                        /\ q.tries = p.tries]_vars

\* C21 witness: a Tcp probe has signalled on its second attempt, made after
\* the first one failed and the second's delay had passed.
C21_Witness ==
    \E gi \in TransportProbes :
        LET p == probes[gi[1]][gi[2]]
        IN  p.kind = "tcp" /\ p.st = "done" /\ p.fails = 1 /\ p.tries = 2 /\ p.slept = 1

\* C22 (as stated): whenever the reader is about to slice the bytes of a read
\* that returned n > 0 bytes, the bytes already buffered (count) are at most
\* n, and the reader task has not panicked.
C22_SliceInRange ==
    /\ reader # "panicked"
    /\ (reader = "running" /\ pipe # <<>> /\ Head(pipe).kind = "Ok"
            /\ Head(pipe).bytes # <<>>)
        => count <= Len(Head(pipe).bytes)

\* C23: at most one child is alive at a time.  A child runs only between its
\* spawn and the wait or kill of its own attempt: when run_server returns an
\* outcome other than DidntSpawn its child has exited or been killed, also
\* when the log task ended first (read error, panic), and a child is spawned
\* only when no child handle is held.
C23_OneChildAtATime ==
    /\ [](child = "running" => pc \in {"starting", "kill", "ready"})
    /\ [](pc \in {"drainES", "drainTO", "drainER"} => ChildGone)
    /\ [](pc \in {"launch", "check", "done"} => child = "none")
    /\ [][/\ Returned /\ Last(outcomes') # "DidntSpawn" => ChildGone
          /\ Returned /\ Last(outcomes') = "DidntSpawn" => child = "none"
          /\ child' = "running" /\ child # "running" =>
                child = "none" /\ pc = "launch" /\ launches' = launches + 1
          /\ child = "running" /\ child' # "running" => ChildGone']_vars

\* C23 witness: the child of an earlier attempt was spawned and that attempt
\* has returned; the child of the next attempt is now running.
C23_Witness ==
    /\ Len(outcomes) >= 1
    /\ Last(outcomes) = "ExitedWhileReady"
    /\ child = "running"
    /\ launches >= 2

\* C24: every attempt has a channel of its own, and the Matches probes of the
\* attempt are subscribed to it when the child is spawned and the reader
\* starts: at that step the channel is empty and every Matches probe stands
\* at its start; no channel and no probe is left between attempts; the lines
\* on the channel are the ones this attempt's child printed; what a Matches
\* probe has received is taken from them in order, and is all of them from
\* the first up to its cursor when it never lagged.
C24_SubscribedBeforeSpawn ==
    /\ [](pc \in {"launch", "check", "done"} =>
             probes = NoRules /\ log = <<>> /\ reader = "none")
    /\ [](Len(log) <= Len(script) /\ log = SubSeq(script, 1, Len(log)))
    /\ [](\A gi \in MatchesProbes :
            LET p == probes[gi[1]][gi[2]]
            IN  /\ p.cur <= Len(log)
                /\ Len(p.got) <= p.cur
                /\ IsSubSeq(p.got, SubSeq(log, 1, p.cur))
                /\ ~p.lagged => Len(p.got) = p.cur /\ p.got = SubSeq(log, 1, p.cur)
                /\ p.st = "init" => p.cur = 0 /\ p.got = <<>>)
    /\ [][(child' = "running" /\ child # "running") =>
             /\ log' = <<>>
             /\ reader = "none" /\ reader' = "running"
             /\ probes = NoRules
             /\ Len(probes') = Len(rules)
             /\ \A g \in 1..Len(probes') : \A i \in 1..Len(probes'[g]) :
                   LET q == probes'[g][i]
                   IN  q.kind = "matches" =>
                         q.st = "init" /\ q.cur = 0 /\ q.got = <<>> /\ ~q.lagged]_vars

\* C24 witness: in an attempt that follows one whose child printed lines, a
\* Matches probe that never lagged has received both lines this attempt's
\* child has printed, the first included.
C24_Witness ==
    /\ Spawned >= 1
    /\ child # "none"
    /\ Len(log) >= 2
    /\ \E gi \in MatchesProbes :
          LET p == probes[gi[1]][gi[2]]
          IN  ~p.lagged /\ p.got = log

====
